---- MODULE Spec2Model ----
(***************************************************************************)
(* A model of the offline content pipeline of DemoPresentations:           *)
(*   - services/zipService.ts (src/unnamed/part_000): processZipContent    *)
(*   - services/s3Service.ts: downloadFile                                 *)
(*   - services/dbService.ts: saveFileToDB, getFileFromDB, getStoredKeys,  *)
(*     deleteFileFromDB                                                    *)
(*   - App.tsx: fetchFiles, handleDownload, handlePlay, the card guards    *)
(*     and the Player's onClose                                            *)
(*                                                                         *)
(* Strings are modelled by their structure.  An archive path is a record   *)
(* [dir, stem, ext] standing for the string dir \o stem \o ext, and the    *)
(* entry-point text is a sequence of attribute occurrences, each the       *)
(* record of the pieces the rewriting regular expression looks at.         *)
(***************************************************************************)
EXTENDS Integers, Sequences, FiniteSets, TLC

\* ------------------------------------------------------------------------
\* Bounds of the model
\* ------------------------------------------------------------------------
\* longest archive (number of entries) drawn in SpecZip
MaxEntries == 3
\* most attribute occurrences in an entry-point text drawn in SpecRewrite
MaxRefs == 2
\* longest response body (bytes) drawn in SpecFetch
MaxBody == 3
\* largest byte value drawn in SpecFetch
MaxByte == 1
\* most calls of handleDownload, handlePlay (past the lock) and fetchFiles,
\* taken together, in one run of Spec
MaxCalls == 4
\* most dbService calls in one run of SpecStore
MaxOps == 3
\* longest path (in characters) handed to joinUrl in SpecJoin
MaxPath == 4
\* most characters after the host in the base handed to joinUrl in SpecJoin
MaxBaseTail == 2

VARIABLES
  config,          \* App: the config state is set (non-null)
  files,           \* App: the files state, key -> item, for the listed keys
  loading,         \* App: the loading state
  error,           \* App: the error state, "" for null
  playingContent,  \* App: the playingContent state
  isProcessing,    \* App: the isProcessing state
  db,              \* IndexedDB object store 'files': key -> stored bytes
  liveHandles,     \* the blob URLs created and not revoked
  nextHandle,      \* the next unused blob id
  dls,             \* the handleDownload calls, in order of invocation
  plays,           \* the handlePlay calls that passed the lock
  fetches,         \* the fetchFiles calls
  playIgnored,     \* history: a handlePlay call returned at the lock
  fx,              \* SpecFetch: the downloadFile call under study
  zx,              \* SpecZip, SpecRewrite: the processZipContent call under study
  sx,              \* SpecStore: the dbService calls under study
  jx               \* SpecJoin: the joinUrl call under study

appVars == <<config, files, loading, error, playingContent, isProcessing, db,
             dls, plays, fetches, playIgnored>>
urlVars == <<liveHandles, nextHandle>>
vars == <<config, files, loading, error, playingContent, isProcessing, db,
          liveHandles, nextHandle, dls, plays, fetches, playIgnored, fx, zx, sx, jx>>

\* ------------------------------------------------------------------------
\* Strings
\* ------------------------------------------------------------------------
\* String.prototype.toLowerCase on the pieces of a path
Lower(s) ==
  CASE s = "Index" -> "index"
    [] s = ".HTML" -> ".html"
    [] s = "LOGO" -> "logo"
    [] s = ".PNG" -> ".png"
    [] OTHER -> s

Path(d, s, e) == [kind |-> "file", dir |-> d, stem |-> s, ext |-> e, id |-> 0]

\* the string URL.createObjectURL returns for the id-th blob
BlobUrl(i) == [kind |-> "blob", dir |-> "blob:", stem |-> "", ext |-> "", id |-> i]

\* name.toLowerCase().endsWith(suffix), suffix an extension
EndsWithLower(name, suffix) == Lower(name.ext) = suffix

\* /^index\.html$/i tested against the entry's full relative path
IndexRegexTest(name) ==
  /\ name.dir = ""
  /\ Lower(name.stem) = "index"
  /\ Lower(name.ext) = ".html"

\* ------------------------------------------------------------------------
\* JSZip: a loaded archive is the sequence of its entries in Object.keys
\* order; an entry is [name, isDir, corrupt, text].  corrupt: reading the
\* entry's data (file.async) rejects.
\* ------------------------------------------------------------------------
\* loadedZip.file(regex): the non-directory entries whose path matches
ZipFileRegex(zip) ==
  SelectSeq(zip, LAMBDA e : ~e.isDir /\ IndexRegexTest(e.name))

\* loadedZip.file(name): the entry of that exact path, null for a directory
\* or an absent path; here the sequence of at most one entry
ZipFile(zip, name) ==
  SelectSeq(zip, LAMBDA e : ~e.isDir /\ e.name = name)

\* Object.keys(loadedZip.files).filter(name => name.toLowerCase().endsWith('.html'))
HtmlFiles(zip) ==
  SelectSeq(zip, LAMBDA e : EndsWithLower(e.name, ".html"))

\* lines 12-21: the entry point, as a sequence of at most one entry
FindEntryFile(zip) ==
  IF ZipFileRegex(zip) # <<>> THEN <<ZipFileRegex(zip)[1]>>
  ELSE IF HtmlFiles(zip) # <<>> THEN ZipFile(zip, HtmlFiles(zip)[1].name)
  ELSE <<>>

\* lines 52-58: the mime type of an asset, "" when the extension is not known
MimeOf(name) ==
  CASE EndsWithLower(name, ".png") -> "image/png"
    [] EndsWithLower(name, ".jpg") \/ EndsWithLower(name, ".jpeg") -> "image/jpeg"
    [] EndsWithLower(name, ".svg") -> "image/svg+xml"
    [] EndsWithLower(name, ".css") -> "text/css"
    [] EndsWithLower(name, ".js") -> "application/javascript"
    [] OTHER -> ""

\* lines 51-66: the loop over the entries from position i on.  h is the next
\* unused blob id, acc the assetMap so far (a sequence of [name, url] in
\* insertion order).  A corrupt asset makes file.async("blob") reject, which
\* ends the loop and the whole call with the handles made so far still live.
RECURSIVE CreateAssets(_, _, _, _)
CreateAssets(zip, i, h, acc) ==
  IF i > Len(zip) THEN [failed |-> FALSE, map |-> acc, next |-> h]
  ELSE LET e == zip[i] IN
       IF MimeOf(e.name) = "" \/ ZipFile(zip, e.name) = <<>>
       THEN CreateAssets(zip, i + 1, h, acc)
       ELSE IF e.corrupt
       THEN [failed |-> TRUE, map |-> acc, next |-> h]
       ELSE CreateAssets(zip, i + 1, h + 1,
                         Append(acc, [name |-> e.name, url |-> BlobUrl(h)]))

\* line 78: new RegExp(`(src|href)=["'](\\./)?${escapedName}["']`, 'g') matching
\* the occurrence o; the escaped name matches itself only
RegexMatches(o, filename) ==
  /\ o.attr \in {"src", "href"}
  /\ o.q1 \in {"\"", "'"}
  /\ o.marker \in {"", "./"}
  /\ o.path = filename
  /\ o.suffix = ""
  /\ o.q2 \in {"\"", "'"}

\* line 79: the replacement `$1="${assetMap[filename]}"`
Replacement(o, url) ==
  [attr |-> o.attr, q1 |-> "\"", marker |-> "", path |-> url,
   suffix |-> "", q2 |-> "\""]

\* line 79: htmlContent.replace(regex, ...) for one asset
ReplaceAll(html, a) ==
  [i \in DOMAIN html |->
     IF RegexMatches(html[i], a.name) THEN Replacement(html[i], a.url)
     ELSE html[i]]

\* lines 72-80: Object.keys(assetMap).forEach, from position i on
RECURSIVE RewriteRefs(_, _, _)
RewriteRefs(html, map, i) ==
  IF i > Len(map) THEN html
  ELSE RewriteRefs(ReplaceAll(html, map[i]), map, i + 1)

\* what a call of processZipContent comes to: ok with the returned html, or
\* the message err of the error thrown.  History: entry is the entry point
\* chosen, created the blob ids made during the call, map the assetMap.
NoResult ==
  [ok |-> FALSE, err |-> "", html |-> <<>>, entry |-> <<>>, created |-> {}, map |-> <<>>]

\* processZipContent with the assets materialized before the entry point is
\* looked for
processZipContentAssetsFirst(z, h) ==
  IF z.bad THEN [NoResult EXCEPT !.err = "corrupt"]
  ELSE LET assets == CreateAssets(z.files, 1, h, <<>>)
           made == {assets.map[i].url.id : i \in DOMAIN assets.map}
           entryFile == FindEntryFile(z.files)
       IN
       IF assets.failed
       THEN [NoResult EXCEPT !.err = "corrupt", !.created = made, !.map = assets.map]
       ELSE IF entryFile = <<>>
       THEN [NoResult EXCEPT !.err = "No HTML file found in the archive.",
                             !.created = made, !.map = assets.map]
       ELSE IF entryFile[1].corrupt
       THEN [NoResult EXCEPT !.err = "corrupt", !.entry = <<entryFile[1].name>>,
                             !.created = made, !.map = assets.map]
       ELSE [ok |-> TRUE, err |-> "",
             html |-> RewriteRefs(entryFile[1].text, assets.map, 1),
             entry |-> <<entryFile[1].name>>, created |-> made, map |-> assets.map]

\* processZipContent(zipData) with zip the result of JSZip's loadAsync
\* (bad: loadAsync rejects) and h the next unused blob id.  created is the
\* set of blob ids URL.createObjectURL handed out during the call; the
\* function never calls URL.revokeObjectURL.
processZipContent(z, h) ==
  IF z.bad THEN [NoResult EXCEPT !.err = "corrupt"]
  ELSE LET entryFile == FindEntryFile(z.files) IN
  IF entryFile = <<>> THEN [NoResult EXCEPT !.err = "No HTML file found in the archive."]
  ELSE IF entryFile[1].corrupt
       THEN [NoResult EXCEPT !.err = "corrupt", !.entry = <<entryFile[1].name>>]
  ELSE LET assets == CreateAssets(z.files, 1, h, <<>>)
           made == {assets.map[i].url.id : i \in DOMAIN assets.map}
       IN
       IF assets.failed
       THEN [NoResult EXCEPT !.err = "corrupt", !.entry = <<entryFile[1].name>>,
                             !.created = made, !.map = assets.map]
       ELSE [ok |-> TRUE, err |-> "",
             html |-> RewriteRefs(entryFile[1].text, assets.map, 1),
             entry |-> <<entryFile[1].name>>, created |-> made, map |-> assets.map]

\* ------------------------------------------------------------------------
\* s3Service.ts: joinUrl (lines 7-16)
\* ------------------------------------------------------------------------
\* A URL is the sequence of its characters; "http:" and "https:" stand for
\* the characters of the scheme with its colon, "a", "b" and "h" for the
\* characters of a name.
\* String.prototype.startsWith
StartsWith(s, prefix) == Len(s) >= Len(prefix) /\ SubSeq(s, 1, Len(prefix)) = prefix

\* line 11: baseUrl.replace(/\/+$/, "")
RECURSIVE CleanBase(_)
CleanBase(baseUrl) ==
  IF baseUrl # <<>> /\ baseUrl[Len(baseUrl)] = "/"
  THEN CleanBase(SubSeq(baseUrl, 1, Len(baseUrl) - 1))
  ELSE baseUrl

\* line 13 removing one leading marker only
CleanPathOnce(path) ==
  IF StartsWith(path, <<".", "/">>) THEN SubSeq(path, 3, Len(path))
  ELSE IF StartsWith(path, <<"/">>) THEN Tail(path)
  ELSE path

\* line 13: path.replace(/^(\.\/|\/)+/, "")
RECURSIVE CleanPath(_)
CleanPath(path) ==
  IF StartsWith(path, <<".", "/">>) THEN CleanPath(SubSeq(path, 3, Len(path)))
  ELSE IF StartsWith(path, <<"/">>) THEN CleanPath(Tail(path))
  ELSE path

\* lines 7-16
joinUrl(baseUrl, path) ==
  IF path = <<>> THEN baseUrl
  ELSE IF StartsWith(path, <<"http:", "/", "/">>) \/ StartsWith(path, <<"https:", "/", "/">>)
  THEN path
  ELSE CleanBase(baseUrl) \o <<"/">> \o CleanPath(path)

\* a joinUrl call
IdleJx == [pc |-> "idle", base |-> <<>>, path |-> <<>>, out |-> <<>>]

\* ------------------------------------------------------------------------
\* s3Service.ts: downloadFile, one step per await
\* ------------------------------------------------------------------------
\* A call of downloadFile: pc is the await it is suspended at ("fetch",
\* "buffer" for response.arrayBuffer(), "read" for reader.read()) or how it
\* ended ("done", "failed").  body is the response body the transport still
\* holds, calls the (received, total) pairs handed to onProgress so far.
\* A failed call rejects with an error of class errName and message err;
\* status is response.status of the response it got (0: none).
DfStart(cb) ==
  [pc |-> "fetch", hasCb |-> cb, total |-> 0, body |-> <<>>, received |-> 0,
   chunks |-> <<>>, calls |-> <<>>, result |-> <<>>, err |-> "", errName |-> "",
   status |-> 0]

\* a response: ok is response.ok (the status is in 200..299)
Response(status, statusText, hasLen, hasBody, body) ==
  [rejects |-> FALSE, ok |-> status \in 200..299, status |-> status,
   statusText |-> statusText, hasLen |-> hasLen, hasBody |-> hasBody, body |-> body]

\* fetch rejects: no response (DNS, connection, CORS)
NoResponse ==
  [rejects |-> TRUE, ok |-> FALSE, status |-> 0, statusText |-> "", hasLen |-> FALSE,
   hasBody |-> FALSE, body |-> <<>>]

\* the non-OK responses of a server: the resource is absent, or the server
\* fails; response.statusText is the reason phrase, which HTTP/2 leaves empty
ErrorResponses ==
  { Response(404, t, FALSE, FALSE, <<>>) : t \in {"Not Found", ""} } \cup
  { Response(500, t, FALSE, FALSE, <<>>) : t \in {"Internal Server Error", ""} }

\* lines 77-78: Content-Length is absent, or (HTTP framing) the length of the
\* body; parseInt of its decimal digits is that number
ParseContentLength(resp) == IF resp.hasLen THEN Len(resp.body) ELSE 0

\* lines 71-88: fetch(fileUrl) has settled with resp
DfResponse(d, resp) ==
  IF resp.rejects
  THEN [d EXCEPT !.pc = "failed", !.errName = "TypeError", !.err = "Failed to fetch"]
  ELSE IF ~resp.ok
  THEN [d EXCEPT !.pc = "failed", !.errName = "Error", !.status = resp.status,
                 !.err = "Failed to download file: " \o resp.statusText]
  ELSE IF ~resp.hasBody \/ ~d.hasCb
       THEN [d EXCEPT !.pc = "buffer", !.total = ParseContentLength(resp),
                      !.body = resp.body]
       ELSE [d EXCEPT !.pc = "read", !.total = ParseContentLength(resp),
                      !.body = resp.body]

\* lines 82-84: response.arrayBuffer() has resolved
DfArrayBuffer(d) ==
  [d EXCEPT !.pc = "done",
            !.calls = IF d.hasCb /\ d.total > 0
                      THEN Append(d.calls, <<d.total, d.total>>) ELSE d.calls,
            !.result = d.body]

\* lines 96-97: received after the first n chunks, the sum of their lengths
RECURSIVE SumLen(_, _)
SumLen(chunks, n) == IF n = 0 THEN 0 ELSE SumLen(chunks, n - 1) + Len(chunks[n])

\* lines 104-109 placing every chunk at a multiple of the last chunk's size;
\* a byte of new Uint8Array(received) that is never set is 0
CombineFixedOffsets(chunks, i, acc) ==
  LET size == IF chunks = <<>> THEN 0 ELSE Len(chunks[Len(chunks)])
      covers(p) == {j \in DOMAIN chunks :
                      (j - 1) * size < p /\ p <= (j - 1) * size + Len(chunks[j])}
      latest(p) == CHOOSE j \in covers(p) : \A h \in covers(p) : h <= j
  IN [p \in 1..SumLen(chunks, Len(chunks)) |->
        IF covers(p) = {} THEN 0 ELSE chunks[latest(p)][p - (latest(p) - 1) * size]]

\* lines 104-109: allChunks.set(chunk, position) for each chunk in turn
RECURSIVE Combine(_, _, _)
Combine(chunks, i, acc) ==
  IF i > Len(chunks) THEN acc
  ELSE Combine(chunks, i + 1,
               [p \in 1..(Len(acc) + Len(chunks[i])) |->
                  IF p <= Len(acc) THEN acc[p] ELSE chunks[i][p - Len(acc)]])

\* lines 97-100 reporting the size of the chunk, not the running sum
DfReadChunkOnly(d, n) ==
  IF n = 0
  THEN [d EXCEPT !.pc = "done", !.result = Combine(d.chunks, 1, <<>>)]
  ELSE LET value == SubSeq(d.body, d.received + 1, d.received + n) IN
       [d EXCEPT !.chunks = Append(d.chunks, value),
                 !.received = d.received + Len(value),
                 !.calls = Append(d.calls, <<Len(value), d.total>>)]

\* lines 93-101, 104-111: reader.read() has resolved, with the next n bytes of
\* the body, or with done when n = 0
DfRead(d, n) ==
  IF n = 0
  THEN [d EXCEPT !.pc = "done", !.result = Combine(d.chunks, 1, <<>>)]
  ELSE LET value == SubSeq(d.body, d.received + 1, d.received + n) IN
       [d EXCEPT !.chunks = Append(d.chunks, value),
                 !.received = d.received + Len(value),
                 !.calls = Append(d.calls, <<d.received + Len(value), d.total>>)]

\* lines 112-115: an await rejected (the transport failed)
DfReject(d) == [d EXCEPT !.pc = "failed", !.errName = "TypeError", !.err = "network error"]

\* the chunk sizes reader.read() can deliver next: done (0) once the body is
\* exhausted, else any non-empty part of what is left
ReadSizes(d) ==
  IF d.received = Len(d.body) THEN {0} ELSE 1..(Len(d.body) - d.received)

\* ------------------------------------------------------------------------
\* The environment of the App: the catalog, the server and the archives
\* ------------------------------------------------------------------------
\* the file values of the manifest (library.json)
Keys == {"demo.zip", "b.zip"}

\* the bytes the server holds for a key
ServerFile(k) == IF k = "demo.zip" THEN <<0, 0>> ELSE <<1, 0>>

SampleHtml ==
  << [attr |-> "src", q1 |-> "\"", marker |-> "./", path |-> Path("", "logo", ".png"),
      suffix |-> "", q2 |-> "\""] >>

File(name, corrupt, text) ==
  [name |-> name, isDir |-> FALSE, corrupt |-> corrupt, text |-> text]

\* zip.loadAsync(zipData): the archive the bytes encode.  Bytes that start
\* with 0 are an archive that resolves, other bytes one whose second asset
\* cannot be decompressed, and no bytes are not an archive at all.
Unzip(data) ==
  IF data = <<>> THEN [bad |-> TRUE, files |-> <<>>]
  ELSE IF data[1] = 0
  THEN [bad |-> FALSE,
        files |-> << File(Path("", "index", ".html"), FALSE, SampleHtml),
                     File(Path("", "logo", ".png"), FALSE, <<>>) >>]
  ELSE [bad |-> FALSE,
        files |-> << File(Path("", "index", ".html"), FALSE, SampleHtml),
                     File(Path("", "logo", ".png"), FALSE, <<>>),
                     File(Path("", "style", ".css"), TRUE, <<>>) >>]

\* the ways fetch(fileUrl) can settle for key k
Responses(k) ==
  {NoResponse} \cup ErrorResponses
  \cup { Response(200, "OK", l, b, ServerFile(k)) : l \in BOOLEAN, b \in BOOLEAN }

\* ------------------------------------------------------------------------
\* App.tsx: state
\* ------------------------------------------------------------------------
NoUrl == [set |-> FALSE, html |-> <<>>, made |-> {}]
NoContent == [open |-> FALSE, url |-> NoUrl]

\* a FileItem as fetchFileList returns it (s3Service.ts lines 45-52);
\* downloadProgress -1, errorMsg "" and localUrl NoUrl stand for undefined.
\* A localUrl carries, beside the rewritten text, the blob ids made for it.
NewItem ==
  [status |-> "remote", downloadProgress |-> -1, localUrl |-> NoUrl, errorMsg |-> ""]

\* a handleDownload call: pc is where it is suspended ("download": in
\* downloadFile, whose frame is df; "save": in saveFileToDB) or how it ended
\* ("ready", "failed"); first: lastUpdate is still 0; zipData: line 112.
\* History: before is the item's status when the call started, last the
\* percentage last written to the item since, mono whether those never fell.
\* Once the call has failed, last tells where: 0 in downloadFile, 100 in
\* saveFileToDB.
IdleDl ==
  [pc |-> "idle", key |-> "", df |-> DfStart(TRUE), first |-> TRUE, zipData |-> <<>>,
   before |-> "", last |-> 0, mono |-> TRUE]
\* a handlePlay call past the lock; history: made are the blob ids of the
\* session it opened
IdlePlay == [pc |-> "idle", key |-> "", zipData |-> <<>>, made |-> {}]
IdleFetch == [pc |-> "idle", storedSet |-> {}]
IdleFx == DfStart(FALSE)
IdleZx == [pc |-> "idle", zip |-> [bad |-> TRUE, files |-> <<>>], res |-> NoResult]

\* what the object store holds under a key: nothing (has is FALSE), or a
\* value of some kind with its bytes
NoValue == [has |-> FALSE, kind |-> "", data |-> <<>>]

\* how a dbService call settled: "resolved" or "rejected" (err: the message
\* of the rejection); isNull, bytes and keys are the value it resolved with
NoRes == [settled |-> "", err |-> "", isNull |-> FALSE, bytes |-> <<>>, keys |-> {}]

\* a dbService call: pc is where it is suspended ("open": in openDB,
\* "request": its request waits in its transaction) or "done"
IdleOp == [pc |-> "idle", op |-> "", key |-> "", data |-> <<>>, res |-> NoRes]

\* the call that settled last, as its caller sees it.  History: had, its key
\* was in the object store when its request was carried out; fault, it was
\* rejected by a failure of the storage (request.onerror)
NoRet == [op |-> "", key |-> "", res |-> NoRes, had |-> FALSE, fault |-> FALSE]

\* ops: the dbService calls; queue: their transactions in order of creation;
\* conns: the IDBDatabase connections that are open, each named by the call
\* that opened it (dbService.ts never calls close()); ret: the call that
\* settled last.  History: last is, per key, the bytes of the latest save that
\* completed with no delete after it; over, whether that save replaced other
\* bytes.
IdleSx ==
  [ops |-> [i \in 1..MaxOps |-> IdleOp], queue |-> <<>>, conns |-> {}, ret |-> NoRet,
   last |-> [k \in {"demo.zip", "b.zip"} |-> [has |-> FALSE, data |-> <<>>]],
   over |-> [k \in {"demo.zip", "b.zip"} |-> FALSE]]

\* the calls made so far
Used(pool) == {i \in DOMAIN pool : pool[i].pc # "idle"}
CallsMade == Cardinality(Used(dls)) + Cardinality(Used(plays)) + Cardinality(Used(fetches))

\* the next unused call record of a pool, while calls are left
FreeSlot(pool) ==
  {i \in DOMAIN pool : CallsMade < MaxCalls /\ i = Cardinality(Used(pool)) + 1}

AppInit ==
  /\ config = FALSE
  /\ files = [k \in {} |-> NewItem]
  /\ loading = FALSE
  /\ error = ""
  /\ playingContent = NoContent
  /\ isProcessing = FALSE
  /\ db = [k \in Keys |-> NoValue]
  /\ dls = [i \in 1..MaxCalls |-> IdleDl]
  /\ plays = [i \in 1..MaxCalls |-> IdlePlay]
  /\ fetches = [i \in 1..MaxCalls |-> IdleFetch]
  /\ playIgnored = FALSE

UrlInit == liveHandles = {} /\ nextHandle = 1

\* { ...f, ...patch }
Spread(f, patch) ==
  [status |-> IF "status" \in DOMAIN patch THEN patch.status ELSE f.status,
   downloadProgress |-> IF "downloadProgress" \in DOMAIN patch
                        THEN patch.downloadProgress ELSE f.downloadProgress,
   localUrl |-> IF "localUrl" \in DOMAIN patch THEN patch.localUrl ELSE f.localUrl,
   errorMsg |-> IF "errorMsg" \in DOMAIN patch THEN patch.errorMsg ELSE f.errorMsg]

\* prev.map(f => ({ ...f, ...patch })), whatever the key
MapFilesAll(prev, key, patch) == [k \in DOMAIN prev |-> Spread(prev[k], patch)]

\* prev.map(f => f.key === key ? { ...f, ...patch } : f)
MapFiles(prev, key, patch) ==
  [k \in DOMAIN prev |-> IF k = key THEN Spread(prev[k], patch) ELSE prev[k]]

\* ------------------------------------------------------------------------
\* App.tsx: fetchFiles (lines 47-84) and what starts it
\* ------------------------------------------------------------------------
\* lines 48-52: fetchFiles up to its first await, as call i
FetchFilesBegin(i) ==
  /\ loading' = TRUE
  /\ error' = ""
  /\ fetches' = [fetches EXCEPT ![i] = [pc |-> "keys", storedSet |-> {}]]

\* lines 40-45: handleSaveConfig
HandleSaveConfig ==
  \E i \in FreeSlot(fetches) :
    /\ config' = TRUE
    /\ files' = [k \in {} |-> NewItem]
    /\ FetchFilesBegin(i)
    /\ UNCHANGED <<playingContent, isProcessing, db, dls, plays, playIgnored,
                   liveHandles, nextHandle, fx, zx, sx, jx>>

\* lines 205-212: the Refresh button, disabled while loading or without config
RefreshClick ==
  \E i \in FreeSlot(fetches) :
    /\ config /\ ~loading
    /\ FetchFilesBegin(i)
    /\ UNCHANGED <<config, files, playingContent, isProcessing, db, dls, plays,
                   playIgnored, liveHandles, nextHandle, fx, zx, sx, jx>>

\* lines 243-256: the Try Again button of the error panel
TryAgainClick ==
  \E i \in FreeSlot(fetches) :
    /\ config /\ error # ""
    /\ FetchFilesBegin(i)
    /\ UNCHANGED <<config, files, playingContent, isProcessing, db, dls, plays,
                   playIgnored, liveHandles, nextHandle, fx, zx, sx, jx>>

\* dbService.ts lines 62-74: what getStoredKeys resolves with
getStoredKeys == {k \in Keys : db[k].has}

\* lines 52-53: getStoredKeys has resolved, or (lines 79-83) rejected
FetchFilesKeys(i) ==
  /\ fetches[i].pc = "keys"
  /\ \/ /\ fetches' = [fetches EXCEPT ![i] = [pc |-> "list", storedSet |-> getStoredKeys]]
        /\ UNCHANGED <<loading, error>>
     \/ /\ fetches' = [fetches EXCEPT ![i].pc = "done"]
        /\ error' = "Failed to list files. Check URL and CORS settings."
        /\ loading' = FALSE
  /\ UNCHANGED <<config, files, playingContent, isProcessing, db, dls, plays,
                 playIgnored, liveHandles, nextHandle, fx, zx, sx, jx>>

\* lines 70-77 marking every item 'ready'
MergedListAllReady(storedSet) == [k \in Keys |-> [NewItem EXCEPT !.status = "ready"]]

\* lines 70-77: the list merged with the stored keys read earlier
MergedList(storedSet) ==
  [k \in Keys |->
     [NewItem EXCEPT !.status = IF k \in storedSet THEN "ready" ELSE "remote"]]

\* lines 58, 70-83: fetchFileList has resolved with the manifest's items
FetchFilesList(i) ==
  /\ fetches[i].pc = "list"
  /\ fetches' = [fetches EXCEPT ![i] = [pc |-> "done", storedSet |-> {}]]
  /\ files' = MergedList(fetches[i].storedSet)
  /\ loading' = FALSE
  /\ UNCHANGED <<config, error, playingContent, isProcessing, db, dls, plays,
                 playIgnored, liveHandles, nextHandle, fx, zx, sx, jx>>

\* lines 59-67, 79-83: fetchFileList has rejected
FetchFilesListFails(i) ==
  /\ fetches[i].pc = "list"
  /\ fetches' = [fetches EXCEPT ![i] = [pc |-> "done", storedSet |-> {}]]
  /\ error' = "library.json not found at this URL."
  /\ loading' = FALSE
  /\ UNCHANGED <<config, files, playingContent, isProcessing, db, dls, plays,
                 playIgnored, liveHandles, nextHandle, fx, zx, sx, jx>>

\* ------------------------------------------------------------------------
\* FileCard (App.tsx lines 307-442): what a card offers
\* ------------------------------------------------------------------------
\* lines 227-269: the cards are rendered when there is a config and no error
CardShown(k) == config /\ error = "" /\ k \in DOMAIN files

\* lines 323-329, 394-402, 428-434: Download for 'remote', Retry for 'error'
DownloadOffered(k) == CardShown(k) /\ files[k].status \in {"remote", "error"}

\* lines 323-325, 418-426: Play for 'ready'
PlayOffered(k) == CardShown(k) /\ files[k].status = "ready"

\* ------------------------------------------------------------------------
\* App.tsx: handleDownload (lines 86-129)
\* ------------------------------------------------------------------------
InFlight(d) == d.pc \in {"download", "save"}

\* history: the percentage v is written to the item of key k; every running
\* download of k records it and whether it is below the one before
NoteWrite(D, prev, k, v) ==
  IF k \notin DOMAIN prev THEN D
  ELSE [j \in DOMAIN D |->
          IF InFlight(D[j]) /\ D[j].key = k
          THEN [D[j] EXCEPT !.mono = D[j].mono /\ v >= D[j].last, !.last = v]
          ELSE D[j]]

\* Math.round(x) for x = (a / b) * 100, a >= 0, b > 0: half rounds up
RoundPercent(a, b) == (200 * a + b) \div (2 * b)

\* line 100
Percentage(received, total) ==
  IF RoundPercent(received, total) < 99 THEN RoundPercent(received, total) ELSE 99

\* line 98: the throttle lets the call through.  lastUpdate is 0 before the
\* first update, so the first call with a known total always passes; whether
\* more than 100 ms have passed since is up to the clock (elapsed).
ThrottlePasses(d, elapsed, total) == (d.first \/ elapsed) /\ total > 0

\* lines 102-107: the item of key changes when its percentage differs
ProgressChanges(prev, key, percentage) ==
  key \in DOMAIN prev /\ prev[key].downloadProgress # percentage

\* lines 86-90: handleDownload(k) up to its first await, from the card
HandleDownload(k) ==
  \E i \in FreeSlot(dls) :
    /\ DownloadOffered(k)
    /\ config
    /\ files' = MapFiles(files, k,
                   [status |-> "downloading", downloadProgress |-> 0])
    /\ dls' = NoteWrite([dls EXCEPT ![i] =
                           [IdleDl EXCEPT !.pc = "download", !.key = k,
                                          !.before = files[k].status]],
                        files, k, 0)
    /\ UNCHANGED <<config, loading, error, playingContent, isProcessing, db, plays,
                   fetches, playIgnored, liveHandles, nextHandle, fx, zx, sx, jx>>

\* lines 123-128 putting the item back to 'remote'
DownloadFailedToRemote(i) ==
  /\ files' = MapFiles(files, dls[i].key, [status |-> "remote"])
  /\ dls' = [dls EXCEPT ![i].pc = "failed", ![i].df = DfStart(TRUE),
                        ![i].first = TRUE, ![i].zipData = <<>>,
                        ![i].last = IF dls[i].pc = "save" THEN 100 ELSE 0]

\* lines 123-128: the catch block
DownloadFailed(i) ==
  /\ files' = MapFiles(files, dls[i].key,
                 [status |-> "error", errorMsg |-> "Download failed"])
  /\ dls' = [dls EXCEPT ![i].pc = "failed", ![i].df = DfStart(TRUE),
                        ![i].first = TRUE, ![i].zipData = <<>>,
                        ![i].last = IF dls[i].pc = "save" THEN 100 ELSE 0]

\* lines 96-109: onProgress(received, total) of call i, whose downloadFile
\* record becomes df; then, when downloadFile has returned (df.pc = "done"),
\* lines 115-116: the item shows 100 and saveFileToDB is awaited
DownloadProgressed(i, df, elapsed) ==
  LET d == dls[i]
      key == d.key
      called == Len(df.calls) > Len(d.df.calls)
      call == df.calls[Len(df.calls)]
      passes == called /\ ThrottlePasses(d, elapsed, call[2])
      percentage == Percentage(call[1], call[2])
      writes == passes /\ ProgressChanges(files, key, percentage)
      files1 == IF writes
                THEN MapFiles(files, key, [downloadProgress |-> percentage])
                ELSE files
      dls1 == [dls EXCEPT ![i].df = df,
                          ![i].first = IF passes THEN FALSE ELSE d.first]
      dls2 == IF writes THEN NoteWrite(dls1, files, key, percentage) ELSE dls1
  IN IF df.pc = "done"
     THEN /\ files' = MapFiles(files1, key, [downloadProgress |-> 100])
          /\ dls' = [NoteWrite(dls2, files1, key, 100) EXCEPT
                       ![i].pc = "save", ![i].zipData = df.result,
                       ![i].df = DfStart(TRUE), ![i].first = TRUE]
     ELSE /\ files' = files1
          /\ dls' = dls2

\* line 112: fetch(fileUrl) inside downloadFile has settled
DlResponds(i, resp) ==
  /\ dls[i].pc = "download" /\ dls[i].df.pc = "fetch"
  /\ LET df == DfResponse(dls[i].df, resp) IN
       IF df.pc = "failed" THEN DownloadFailed(i)
       ELSE /\ dls' = [dls EXCEPT ![i].df = df]
            /\ UNCHANGED files
  /\ UNCHANGED <<config, loading, error, playingContent, isProcessing, db, plays,
                 fetches, playIgnored, liveHandles, nextHandle, fx, zx, sx, jx>>

\* line 112: response.arrayBuffer() inside downloadFile has resolved
DlArrayBuffer(i, elapsed) ==
  /\ dls[i].pc = "download" /\ dls[i].df.pc = "buffer"
  /\ DownloadProgressed(i, DfArrayBuffer(dls[i].df), elapsed)
  /\ UNCHANGED <<config, loading, error, playingContent, isProcessing, db, plays,
                 fetches, playIgnored, liveHandles, nextHandle, fx, zx, sx, jx>>

\* line 112: reader.read() inside downloadFile has resolved
DlRead(i, n, elapsed) ==
  /\ dls[i].pc = "download" /\ dls[i].df.pc = "read"
  /\ n \in ReadSizes(dls[i].df)
  /\ DownloadProgressed(i, DfRead(dls[i].df, n), elapsed)
  /\ UNCHANGED <<config, loading, error, playingContent, isProcessing, db, plays,
                 fetches, playIgnored, liveHandles, nextHandle, fx, zx, sx, jx>>

\* lines 112-128 saving what was received when the transport fails
DlTransportFailsKeepsPartial(i) ==
  /\ dls[i].pc = "download" /\ dls[i].df.pc \in {"buffer", "read"}
  /\ DownloadFailed(i)
  /\ db' = [db EXCEPT ![dls[i].key] =
              [has |-> TRUE, kind |-> "Blob",
               data |-> SubSeq(dls[i].df.body, 1, dls[i].df.received)]]
  /\ UNCHANGED <<config, loading, error, playingContent, isProcessing, plays,
                 fetches, playIgnored, liveHandles, nextHandle, fx, zx, sx, jx>>

\* line 112: the transport failed while the body was being received
DlTransportFails(i) ==
  /\ dls[i].pc = "download" /\ dls[i].df.pc \in {"buffer", "read"}
  /\ DfReject(dls[i].df).pc = "failed"
  /\ DownloadFailed(i)
  /\ UNCHANGED <<config, loading, error, playingContent, isProcessing, db, plays,
                 fetches, playIgnored, liveHandles, nextHandle, fx, zx, sx, jx>>

\* line 31 storing the bytes as text
NewText(data) == [has |-> TRUE, kind |-> "String", data |-> data]

\* dbService.ts line 31: new Blob([data], { type: 'application/zip' })
NewBlob(data) == [has |-> TRUE, kind |-> "Blob", data |-> data]

\* lines 25-37 adding the bytes to what the key holds
saveFileToDBAppends(store, key, data) ==
  [store EXCEPT ![key] = NewBlob(store[key].data \o data)]

\* dbService.ts lines 25-37: store.put(blob, key)
saveFileToDB(store, key, data) == [store EXCEPT ![key] = NewBlob(data)]

\* lines 116-121 marking the item 'ready' without the write
DlSavedBeforeWrite(i) ==
  /\ dls[i].pc = "save"
  /\ files' = MapFiles(files, dls[i].key,
                 [status |-> "ready", downloadProgress |-> -1])
  /\ dls' = [dls EXCEPT ![i].pc = "ready", ![i].zipData = <<>>, ![i].last = 0]
  /\ UNCHANGED <<config, loading, error, playingContent, isProcessing, db, plays,
                 fetches, playIgnored, liveHandles, nextHandle, fx, zx, sx, jx>>

\* lines 116-121: saveFileToDB has resolved
DlSaved(i) ==
  /\ dls[i].pc = "save"
  /\ db' = saveFileToDB(db, dls[i].key, dls[i].zipData)
  /\ files' = MapFiles(files, dls[i].key,
                 [status |-> "ready", downloadProgress |-> -1])
  /\ dls' = [dls EXCEPT ![i].pc = "ready", ![i].zipData = <<>>, ![i].last = 0]
  /\ UNCHANGED <<config, loading, error, playingContent, isProcessing, plays,
                 fetches, playIgnored, liveHandles, nextHandle, fx, zx, sx, jx>>

\* lines 116-128 with the rejection of saveFileToDB not caught
DlSaveFailsUncaught(i) ==
  /\ dls[i].pc = "save"
  /\ dls' = [dls EXCEPT ![i].pc = "failed", ![i].zipData = <<>>, ![i].last = 100]
  /\ UNCHANGED <<config, files, loading, error, playingContent, isProcessing, db,
                 plays, fetches, playIgnored, liveHandles, nextHandle, fx, zx, sx, jx>>

\* lines 116, 123-128: saveFileToDB has rejected
DlSaveFails(i) ==
  /\ dls[i].pc = "save"
  /\ DownloadFailed(i)
  /\ UNCHANGED <<config, loading, error, playingContent, isProcessing, db, plays,
                 fetches, playIgnored, liveHandles, nextHandle, fx, zx, sx, jx>>

\* ------------------------------------------------------------------------
\* App.tsx: handlePlay (lines 131-172) and the Player's onClose (line 300)
\* ------------------------------------------------------------------------
\* line 132 without its early return
PlayBlockedNever == FALSE

\* line 132: the processing lock, as the handler of the current render sees it
PlayBlocked == isProcessing

\* lines 131-139, 154-159, 169-171: handlePlay(item) up to its first await,
\* from the card of k; with a cached localUrl it runs to its end
HandlePlay(k) ==
  /\ PlayOffered(k)
  /\ IF PlayBlocked
     THEN /\ playIgnored' = TRUE
          /\ UNCHANGED <<playingContent, isProcessing, plays>>
     ELSE IF files[k].localUrl.set
     THEN /\ playingContent' = [open |-> TRUE, url |-> files[k].localUrl]
          /\ isProcessing' = FALSE
          /\ UNCHANGED <<plays, playIgnored>>
     ELSE \E i \in FreeSlot(plays) :
          /\ isProcessing' = TRUE
          /\ plays' = [plays EXCEPT ![i] = [IdlePlay EXCEPT !.pc = "getFile", !.key = k]]
          /\ UNCHANGED <<playingContent, playIgnored>>
  /\ UNCHANGED <<config, files, loading, error, db, dls, fetches,
                 liveHandles, nextHandle, fx, zx, sx, jx>>

\* dbService.ts lines 44-56: what getFileFromDB resolves with, the bytes of
\* a Blob or of a Uint8Array, and null (has is FALSE) for anything else
getFileFromDB(key) ==
  LET result == db[key] IN
    IF result.has /\ result.kind = "Blob" THEN [has |-> TRUE, data |-> result.data]
    ELSE IF result.has /\ result.kind = "Uint8Array" THEN [has |-> TRUE, data |-> result.data]
    ELSE [has |-> FALSE, data |-> <<>>]

\* line 145: the message of the error thrown when getFileFromDB gave null
MissingMessage == "File not found in storage. Please download again."

\* line 163 finding "not found" nowhere
IncludesNotFoundNever(message) == FALSE

\* line 163: err.message.includes("not found")
IncludesNotFound(message) == message = "File not found in storage. Please download again."

\* lines 143-146, 160-171: getFileFromDB has resolved
PlayGetFile(i) ==
  /\ plays[i].pc = "getFile"
  /\ LET zipData == getFileFromDB(plays[i].key) IN
     IF zipData.has
     THEN /\ plays' = [plays EXCEPT ![i].pc = "process", ![i].zipData = zipData.data]
          /\ UNCHANGED <<files, isProcessing>>
     ELSE /\ plays' = [plays EXCEPT ![i].pc = "missing"]
          /\ files' = IF IncludesNotFound(MissingMessage)
                      THEN MapFiles(files, plays[i].key, [status |-> "remote"])
                      ELSE files
          /\ isProcessing' = FALSE
  /\ UNCHANGED <<config, loading, error, playingContent, db, dls, fetches,
                 playIgnored, liveHandles, nextHandle, fx, zx, sx, jx>>

\* lines 143, 160-171 deleting the key from the store when the read fails
PlayGetFileFailsDeletes(i, notFound) ==
  /\ plays[i].pc = "getFile"
  /\ plays' = [plays EXCEPT ![i].pc = "failed"]
  /\ db' = [db EXCEPT ![plays[i].key] = NoValue]
  /\ files' = IF notFound
              THEN MapFiles(files, plays[i].key, [status |-> "remote"])
              ELSE files
  /\ isProcessing' = FALSE
  /\ UNCHANGED <<config, loading, error, playingContent, dls, fetches,
                 playIgnored, liveHandles, nextHandle, fx, zx, sx, jx>>

\* lines 143, 160-171 without the finally block
PlayGetFileFailsKeepsLock(i, notFound) ==
  /\ plays[i].pc = "getFile"
  /\ plays' = [plays EXCEPT ![i].pc = "failed"]
  /\ files' = IF notFound
              THEN MapFiles(files, plays[i].key, [status |-> "remote"])
              ELSE files
  /\ UNCHANGED <<config, loading, error, playingContent, isProcessing, db, dls,
                 fetches, playIgnored, liveHandles, nextHandle, fx, zx, sx, jx>>

\* lines 143, 160-171: getFileFromDB has rejected; notFound: the message of
\* the rejection includes "not found"
PlayGetFileFails(i, notFound) ==
  /\ plays[i].pc = "getFile"
  /\ plays' = [plays EXCEPT ![i].pc = "failed"]
  /\ files' = IF notFound
              THEN MapFiles(files, plays[i].key, [status |-> "remote"])
              ELSE files
  /\ isProcessing' = FALSE
  /\ UNCHANGED <<config, loading, error, playingContent, db, dls, fetches,
                 playIgnored, liveHandles, nextHandle, fx, zx, sx, jx>>

\* lines 148-171: processZipContent has settled
PlayProcess(i) ==
  /\ plays[i].pc = "process"
  /\ LET r == processZipContent(Unzip(plays[i].zipData), nextHandle)
         contentUrl == [set |-> TRUE, html |-> r.html, made |-> r.created]
     IN /\ liveHandles' = liveHandles \cup r.created
        /\ nextHandle' = nextHandle + Cardinality(r.created)
        /\ IF r.ok
           THEN /\ files' = MapFiles(files, plays[i].key,
                               [localUrl |-> contentUrl])
                /\ playingContent' = [open |-> TRUE, url |-> contentUrl]
                /\ plays' = [plays EXCEPT ![i].pc = "played", ![i].zipData = <<>>,
                                          ![i].made = r.created]
           ELSE /\ plays' = [plays EXCEPT ![i].pc = "failed", ![i].zipData = <<>>]
                /\ UNCHANGED <<files, playingContent>>
  /\ isProcessing' = FALSE
  /\ UNCHANGED <<config, loading, error, db, dls, fetches, playIgnored, fx, zx, sx, jx>>

\* Player.tsx lines 16-22, App.tsx line 300: the back button
PlayerClose ==
  /\ playingContent.open
  /\ playingContent' = NoContent
  /\ UNCHANGED <<config, files, loading, error, isProcessing, db, dls, plays,
                 fetches, playIgnored, liveHandles, nextHandle, fx, zx, sx, jx>>

\* ------------------------------------------------------------------------
\* The App
\* ------------------------------------------------------------------------
Init == AppInit /\ UrlInit /\ fx = IdleFx /\ zx = IdleZx /\ sx = IdleSx /\ jx = IdleJx

Next ==
  \/ HandleSaveConfig
  \/ RefreshClick
  \/ TryAgainClick
  \/ \E i \in 1..MaxCalls : FetchFilesKeys(i)
  \/ \E i \in 1..MaxCalls : FetchFilesList(i)
  \/ \E i \in 1..MaxCalls : FetchFilesListFails(i)
  \/ \E k \in Keys : HandleDownload(k)
  \/ \E i \in 1..MaxCalls : \E resp \in Responses(dls[i].key) : DlResponds(i, resp)
  \/ \E i \in 1..MaxCalls : \E elapsed \in BOOLEAN : DlArrayBuffer(i, elapsed)
  \/ \E i \in 1..MaxCalls : \E n \in 0..2, elapsed \in BOOLEAN : DlRead(i, n, elapsed)
  \/ \E i \in 1..MaxCalls : DlTransportFails(i)
  \/ \E i \in 1..MaxCalls : DlSaved(i)
  \/ \E i \in 1..MaxCalls : DlSaveFails(i)
  \/ \E k \in Keys : HandlePlay(k)
  \/ \E i \in 1..MaxCalls : PlayGetFile(i)
  \/ \E i \in 1..MaxCalls : \E notFound \in BOOLEAN : PlayGetFileFails(i, notFound)
  \/ \E i \in 1..MaxCalls : PlayProcess(i)
  \/ PlayerClose

Spec == Init /\ [][Next]_vars

\* ------------------------------------------------------------------------
\* The App in a browser that may clear the origin's storage
\* ------------------------------------------------------------------------
\* the browser deletes the origin's IndexedDB data (storage pressure, or the
\* user clearing the site's data) while the App is open
StorageCleared ==
  /\ \E k \in Keys : db[k].has
  /\ db' = [k \in Keys |-> NoValue]
  /\ UNCHANGED <<config, files, loading, error, playingContent, isProcessing, dls,
                 plays, fetches, playIgnored, liveHandles, nextHandle, fx, zx, sx, jx>>

NextEvict == Next \/ StorageCleared

SpecEvict == Init /\ [][NextEvict]_vars

\* ------------------------------------------------------------------------
\* The same, with every awaited operation settling
\* ------------------------------------------------------------------------
\* what handleDownload call i awaits (fetch, the reads of the body, the
\* store write) settles
DlStep(i) ==
  \/ \E resp \in Responses(dls[i].key) : DlResponds(i, resp)
  \/ \E elapsed \in BOOLEAN : DlArrayBuffer(i, elapsed)
  \/ \E n \in 0..2, elapsed \in BOOLEAN : DlRead(i, n, elapsed)
  \/ DlTransportFails(i)
  \/ DlSaved(i)
  \/ DlSaveFails(i)

\* what handlePlay call i awaits (the store read, the extraction) settles
PlayStep(i) ==
  \/ PlayGetFile(i)
  \/ \E notFound \in BOOLEAN : PlayGetFileFails(i, notFound)
  \/ PlayProcess(i)

SpecFair ==
  /\ Init /\ [][NextEvict]_vars
  /\ \A i \in 1..MaxCalls : WF_vars(DlStep(i)) /\ WF_vars(PlayStep(i))

\* ------------------------------------------------------------------------
\* downloadFile on its own: every response, every chunking
\* ------------------------------------------------------------------------
Bodies == UNION {[1..n -> 0..MaxByte] : n \in 0..MaxBody}

FetchResponses ==
  {NoResponse} \cup ErrorResponses
  \cup { Response(200, "OK", l, b, body) : l \in BOOLEAN, b \in BOOLEAN, body \in Bodies }

FxResponds(resp) ==
  /\ fx.pc = "fetch"
  /\ fx' = DfResponse(fx, resp)
  /\ UNCHANGED <<appVars, urlVars, zx, sx, jx>>

FxArrayBuffer ==
  /\ fx.pc = "buffer"
  /\ fx' = DfArrayBuffer(fx)
  /\ UNCHANGED <<appVars, urlVars, zx, sx, jx>>

FxRead(n) ==
  /\ fx.pc = "read"
  /\ n \in ReadSizes(fx)
  /\ fx' = DfRead(fx, n)
  /\ UNCHANGED <<appVars, urlVars, zx, sx, jx>>

FxTransportFails ==
  /\ fx.pc \in {"buffer", "read"}
  /\ fx' = DfReject(fx)
  /\ UNCHANGED <<appVars, urlVars, zx, sx, jx>>

InitFetch ==
  /\ AppInit /\ UrlInit /\ zx = IdleZx /\ sx = IdleSx /\ jx = IdleJx
  /\ \E cb \in BOOLEAN : fx = DfStart(cb)

NextFetch ==
  \/ \E resp \in FetchResponses : FxResponds(resp)
  \/ FxArrayBuffer
  \/ \E n \in 0..MaxBody : FxRead(n)
  \/ FxTransportFails

SpecFetch == InitFetch /\ [][NextFetch]_vars

\* ------------------------------------------------------------------------
\* processZipContent on its own: every small archive
\* ------------------------------------------------------------------------
ZipNames ==
  { Path(d, f[1], f[2]) :
      d \in {"", "foo/"},
      f \in { <<"Index", ".HTML">>, <<"a", ".html">>, <<"other", ".htm">>,
              <<"logo", ".png">>, <<"x", ".gif">> } }

Folder == [name |-> Path("foo/", "", ""), isDir |-> TRUE, corrupt |-> FALSE, text |-> <<>>]

ZipEntries ==
  { File(n, c, IF Lower(n.ext) \in {".html", ".htm"} THEN SampleHtml ELSE <<>>) :
      n \in ZipNames, c \in BOOLEAN } \cup {Folder}

\* loadedZip.files is keyed by path: no path occurs twice
ZipArchives ==
  { [bad |-> TRUE, files |-> <<>>] } \cup
  { [bad |-> FALSE, files |-> fs] :
      fs \in { s \in UNION {[1..n -> ZipEntries] : n \in 0..MaxEntries} :
                 \A i, j \in DOMAIN s : i # j => s[i].name # s[j].name } }

\* processZipContent(zx.zip) runs to its end
ZxResolve ==
  /\ zx.pc = "ready"
  /\ LET r == processZipContent(zx.zip, nextHandle) IN
       /\ zx' = [zx EXCEPT !.pc = "done", !.res = r]
       /\ liveHandles' = liveHandles \cup r.created
       /\ nextHandle' = nextHandle + Cardinality(r.created)
  /\ UNCHANGED <<appVars, fx, sx, jx>>

InitZip ==
  /\ AppInit /\ UrlInit /\ fx = IdleFx /\ sx = IdleSx /\ jx = IdleJx
  /\ \E z \in ZipArchives : zx = [pc |-> "ready", zip |-> z, res |-> NoResult]

SpecZip == InitZip /\ [][ZxResolve]_vars

\* ------------------------------------------------------------------------
\* processZipContent on its own: every short entry-point text
\* ------------------------------------------------------------------------
Occurrences ==
  [attr : {"src", "href", "SRC"},
   q1 : {"\"", "'"},
   marker : {"", "./", "../"},
   path : {Path("", "logo", ".png"), Path("", "style", ".css"),
           Path("", "LOGO", ".PNG"), Path("", "missing", ".png")},
   suffix : {"", "?v=1"},
   q2 : {"\"", "'"}]

HtmlTexts == UNION {[1..n -> Occurrences] : n \in 1..MaxRefs}

RewriteArchive(text) ==
  [bad |-> FALSE,
   files |-> << File(Path("", "index", ".html"), FALSE, text),
                File(Path("", "logo", ".png"), FALSE, <<>>),
                File(Path("", "style", ".css"), FALSE, <<>>) >>]

InitRewrite ==
  /\ AppInit /\ UrlInit /\ fx = IdleFx /\ sx = IdleSx /\ jx = IdleJx
  /\ \E text \in HtmlTexts :
       zx = [pc |-> "ready", zip |-> RewriteArchive(text), res |-> NoResult]

SpecRewrite == InitRewrite /\ [][ZxResolve]_vars

\* ------------------------------------------------------------------------
\* dbService.ts on its own: every short run of its four functions
\* ------------------------------------------------------------------------
\* the byte arrays handed to saveFileToDB
StoreData == {<<>>, <<1, 0>>}

\* what SpecStore leaves alone
storeFrame == <<config, files, loading, error, playingContent, isProcessing, dls,
                plays, fetches, playIgnored, liveHandles, nextHandle, fx, zx, jx>>

\* lines 76-86 with store.clear() for store.delete(key)
deleteFileFromDBClears(store, key) == [k \in DOMAIN store |-> NoValue]

\* lines 76-86: store.delete(key)
deleteFileFromDB(store, key) == [store EXCEPT ![key] = NoValue]

\* lines 39-60 rejecting for a key that is not there
GetResultRejectsAbsent(key) ==
  LET g == getFileFromDB(key) IN
    IF g.has
    THEN [NoRes EXCEPT !.settled = "resolved", !.bytes = g.data]
    ELSE [NoRes EXCEPT !.settled = "rejected", !.err = "NotFoundError"]

\* lines 46-56: how the promise of getFileFromDB settles on request.onsuccess
GetResult(key) ==
  LET g == getFileFromDB(key) IN
    [NoRes EXCEPT !.settled = "resolved", !.isNull = ~g.has, !.bytes = g.data]

\* lines 34, 46-56, 69-71, 84: how the promise of call o settles on
\* request.onsuccess
StoreResult(o) ==
  CASE o.op = "get" -> GetResult(o.key)
    [] o.op = "keys" -> [NoRes EXCEPT !.settled = "resolved", !.keys = getStoredKeys]
    [] OTHER -> [NoRes EXCEPT !.settled = "resolved"]

\* lines 21, 35, 58, 72, 84: reject(request.error)
StoreRejected == [NoRes EXCEPT !.settled = "rejected", !.err = "request.error"]

\* lines 25-26, 39-40, 62-63, 76-77: a dbService function is called and
\* awaits openDB; the calls are numbered in order of invocation
StoreCall(op, key, data) ==
  \E i \in {j \in 1..MaxOps : sx.ops[j].pc = "idle" /\
                              \A h \in 1..(j - 1) : sx.ops[h].pc # "idle"} :
    /\ sx' = [sx EXCEPT !.ops[i] =
                [IdleOp EXCEPT !.pc = "open", !.op = op, !.key = key, !.data = data]]
    /\ UNCHANGED <<db, storeFrame>>

\* lines 20, 28-32: openDB has resolved with a connection; the call creates
\* its transaction and places its request
StoreOpened(i) ==
  /\ sx.ops[i].pc = "open"
  /\ sx' = [sx EXCEPT !.ops[i].pc = "request",
                      !.queue = Append(@, i),
                      !.conns = @ \cup {i}]
  /\ UNCHANGED <<db, storeFrame>>

\* a call that has settled
DoneOp == [IdleOp EXCEPT !.pc = "done"]

\* line 21: openDB has rejected
StoreOpenFails(i) ==
  /\ sx.ops[i].pc = "open"
  /\ sx' = [sx EXCEPT !.ops[i] = DoneOp,
                      !.ret = [NoRet EXCEPT !.op = sx.ops[i].op, !.key = sx.ops[i].key,
                                            !.res = StoreRejected, !.fault = TRUE]]
  /\ UNCHANGED <<db, storeFrame>>

\* request.onsuccess of the oldest transaction: its request has been carried
\* out on the object store and its promise settles
StoreSucceeds ==
  /\ sx.queue # <<>>
  /\ LET i == Head(sx.queue)
         o == sx.ops[i]
     IN /\ db' = CASE o.op = "save" -> saveFileToDB(db, o.key, o.data)
                   [] o.op = "delete" -> deleteFileFromDB(db, o.key)
                   [] OTHER -> db
        /\ sx' = [sx EXCEPT
                    !.queue = Tail(@),
                    !.ops[i] = DoneOp,
                    !.ret = [NoRet EXCEPT !.op = o.op, !.key = o.key,
                                          !.res = StoreResult(o),
                                          !.had = o.key \in getStoredKeys],
                    !.last = CASE o.op = "save" ->
                                    [@ EXCEPT ![o.key] = [has |-> TRUE, data |-> o.data]]
                               [] o.op = "delete" ->
                                    [@ EXCEPT ![o.key] = [has |-> FALSE, data |-> <<>>]]
                               [] OTHER -> @,
                    !.over = CASE o.op = "save" ->
                                    [@ EXCEPT ![o.key] = sx.last[o.key].has /\
                                                         sx.last[o.key].data # o.data]
                               [] o.op = "delete" -> [@ EXCEPT ![o.key] = FALSE]
                               [] OTHER -> @]
  /\ UNCHANGED storeFrame

\* request.onerror of the oldest transaction: nothing is written
StoreFails ==
  /\ sx.queue # <<>>
  /\ LET i == Head(sx.queue) IN
       sx' = [sx EXCEPT !.queue = Tail(@),
                        !.ops[i] = DoneOp,
                        !.ret = [NoRet EXCEPT !.op = sx.ops[i].op, !.key = sx.ops[i].key,
                                              !.res = StoreRejected, !.fault = TRUE]]
  /\ UNCHANGED <<db, storeFrame>>

InitStore == AppInit /\ UrlInit /\ fx = IdleFx /\ zx = IdleZx /\ sx = IdleSx /\ jx = IdleJx

NextStore ==
  \/ \E k \in Keys, data \in StoreData : StoreCall("save", k, data)
  \/ \E k \in Keys : StoreCall("get", k, <<>>)
  \/ StoreCall("keys", "", <<>>)
  \/ \E k \in Keys : StoreCall("delete", k, <<>>)
  \/ \E i \in 1..MaxOps : StoreOpened(i)
  \/ \E i \in 1..MaxOps : StoreOpenFails(i)
  \/ StoreSucceeds
  \/ StoreFails

SpecStore == InitStore /\ [][NextStore]_vars

\* ------------------------------------------------------------------------
\* joinUrl on its own: every short base and path
\* ------------------------------------------------------------------------
\* the bases: a host, then up to MaxBaseTail characters
JoinBases ==
  { <<"https:", "/", "/", "h">> \o t :
      t \in UNION {[1..n -> {"/", "b"}] : n \in 0..MaxBaseTail} }

\* the paths: up to MaxPath characters
JoinPaths == UNION {[1..n -> {"/", ".", "a", "http:", "https:"}] : n \in 0..MaxPath}

JxResolve ==
  /\ jx.pc = "ready"
  /\ jx' = [jx EXCEPT !.pc = "done", !.out = joinUrl(jx.base, jx.path)]
  /\ UNCHANGED <<appVars, urlVars, fx, zx, sx>>

InitJoin ==
  /\ AppInit /\ UrlInit /\ fx = IdleFx /\ zx = IdleZx /\ sx = IdleSx
  /\ \E b \in JoinBases, p \in JoinPaths :
       jx = [pc |-> "ready", base |-> b, path |-> p, out |-> <<>>]

SpecJoin == InitJoin /\ [][JxResolve]_vars

\* ------------------------------------------------------------------------
\* Properties
\* ------------------------------------------------------------------------
\* the handlePlay calls between reading the archive and the end of
\* processZipContent
Resolving == {i \in DOMAIN plays : plays[i].pc \in {"getFile", "process"}}

\* C1: at most one handlePlay call at a time is between reading the archive
\* from the store and finishing processZipContent, and the lock is held for as
\* long as one is, so that a play request made meanwhile returns at line 132.
C1_OneResolutionInFlight ==
  /\ Cardinality(Resolving) <= 1
  /\ Resolving # {} => isProcessing

\* C1 witness: a resolution is running and a second play request was ignored
C1_Witness == playIgnored /\ \E i \in DOMAIN plays : plays[i].pc = "process"

\* C2: the percentages written to a key's item while a download of that key
\* runs never decrease.
C2_ProgressNonDecreasing == \A i \in DOMAIN dls : dls[i].mono

\* C3: a downloadFile call that was given onProgress and returned has invoked
\* it at least once.
C3_CallbackAtLeastOnce == (fx.pc = "done" /\ fx.hasCb) => Len(fx.calls) >= 1

C5_FailureReleasesHandles ==
  (zx.pc = "done" /\ ~zx.res.ok) => zx.res.created \cap liveHandles = {}

\* the blob ids of the session on screen and of the sessions cached in items
HeldHandles ==
  (IF playingContent.open THEN playingContent.url.made ELSE {})
  \cup UNION {files[k].localUrl.made : k \in DOMAIN files}

\* C6: every live blob URL that was created for a playback session belongs to
\* a session still open or cached.
C6_SessionHandlesReleased ==
  \A i \in DOMAIN plays :
    plays[i].pc = "played" => (plays[i].made \cap liveHandles) \subseteq HeldHandles

\* an entry named index.html, compared case-insensitively, at any depth
IsIndexHtml(e) == ~e.isDir /\ Lower(e.name.stem) = "index" /\ Lower(e.name.ext) = ".html"

\* an entry whose path ends in .html or .htm
IsHtml(e) == ~e.isDir /\ Lower(e.name.ext) \in {".html", ".htm"}

\* C7: the entry point chosen is an index.html (any case, any depth) when
\* there is one, else the first entry in archive order ending in .html/.htm.
C7_EntryPointSelection ==
  (zx.pc = "done" /\ ~zx.zip.bad) =>
    LET fs == zx.zip.files
        chosen == zx.res.entry
    IN IF \E i \in DOMAIN fs : IsIndexHtml(fs[i])
       THEN chosen # <<>> /\ \E i \in DOMAIN fs : IsIndexHtml(fs[i]) /\ fs[i].name = chosen[1]
       ELSE IF SelectSeq(fs, IsHtml) # <<>>
       THEN chosen = <<SelectSeq(fs, IsHtml)[1].name>>
       ELSE TRUE

\* C8: resolving an archive without any HTML entry fails with the
\* no-entry-point error and creates no blob URL.
C8_NoEntryPoint ==
  (zx.pc = "done" /\ ~zx.zip.bad /\ SelectSeq(zx.zip.files, IsHtml) = <<>>) =>
    /\ ~zx.res.ok
    /\ zx.res.err = "No HTML file found in the archive."
    /\ zx.res.created = {}
    /\ liveHandles = {}

\* C8 witness: an archive of readable assets only has been resolved
C8_Witness ==
  /\ zx.pc = "done" /\ ~zx.zip.bad
  /\ SelectSeq(zx.zip.files, IsHtml) = <<>>
  /\ \E i \in DOMAIN zx.zip.files :
       MimeOf(zx.zip.files[i].name) # "" /\ ~zx.zip.files[i].corrupt

\* the locators of the asset of path p, by the assetMap of the call
LocatorsOf(map, p) == {map[i].url : i \in {j \in DOMAIN map : map[j].name = p}}

\* an occurrence of one of the forms src="P", src='P', href="P", href='P'
\* with P the path of an asset, or ./ and that path
IsAssetRef(o, map) ==
  /\ o.attr \in {"src", "href"}
  /\ o.q1 \in {"\"", "'"} /\ o.q2 = o.q1
  /\ o.marker \in {"", "./"}
  /\ o.suffix = ""
  /\ LocatorsOf(map, o.path) # {}

\* C9: an occurrence is rewritten exactly when it is a reference to an asset
\* in one of the four forms, to attr="locator"; all else is left as it was.
C9_RewriteExact ==
  (zx.pc = "done" /\ zx.res.ok) =>
    LET before == SelectSeq(zx.zip.files, LAMBDA e : zx.res.entry = <<e.name>>)[1].text
        after == zx.res.html
    IN /\ Len(after) = Len(before)
       /\ \A i \in DOMAIN before :
            IF IsAssetRef(before[i], zx.res.map)
            THEN \E url \in LocatorsOf(zx.res.map, before[i].path) :
                   after[i] = [attr |-> before[i].attr, q1 |-> "\"", marker |-> "",
                               path |-> url, suffix |-> "", q2 |-> "\""]
            ELSE after[i] = before[i]

\* the handleDownload calls that fail in this step
FailsNow(i) == InFlight(dls[i]) /\ dls'[i].pc = "failed" /\ dls[i].key \in DOMAIN files

\* C10 as stated: a failed download puts the item back to the status it had
\* before the download started, from which a download can be started.
C10_StatusReverts ==
  [][\A i \in DOMAIN dls :
       FailsNow(i) => files'[dls[i].key].status = dls[i].before]_vars

\* C10 as amended: a failed download leaves the item in status 'error' with
\* the message "Download failed", whatever its status was before, and the card
\* of such an item offers a new download of the key (Retry).
C10_FailureSetsError ==
  [][\A i \in DOMAIN dls :
       FailsNow(i) =>
         /\ files'[dls[i].key].status = "error"
         /\ files'[dls[i].key].errorMsg = "Download failed"
         /\ CardShown(dls[i].key)' => DownloadOffered(dls[i].key)']_vars

\* C10 witness: a download of a 'remote' item has failed and Retry is offered
C10_Witness ==
  \E i \in DOMAIN dls :
    /\ dls[i].pc = "failed" /\ dls[i].before = "remote"
    /\ DownloadOffered(dls[i].key)
    /\ files[dls[i].key].status = "error"

\* C11: when handlePlay finds no bytes under the item's key (getFileFromDB
\* resolved with null), the item, if it is still listed, gets status 'remote'
\* in that step, and the processing lock is cleared.
PlayFindsNothing(i) ==
  /\ plays[i].pc = "getFile"
  /\ plays'[i].pc \notin {"getFile", "failed"}
  /\ ~getFileFromDB(plays[i].key).has

C11_MissingDataReverts ==
  [][\A i \in DOMAIN plays : PlayFindsNothing(i) =>
        /\ \A k \in DOMAIN files' : k = plays[i].key => files'[k].status = "remote"
        /\ ~isProcessing']_vars

\* a play attempt found the bytes of a 'ready' item missing and the item is
\* 'remote' now
C11_Witness ==
  \E i \in DOMAIN plays :
    /\ plays[i].pc = "missing"
    /\ plays[i].key \in DOMAIN files
    /\ files[plays[i].key].status = "remote"
    /\ ~db[plays[i].key].has

\* what the latest settled call resolved with, if it resolved
Resolved(op) == sx.ret.op = op /\ sx.ret.res.settled = "resolved"

\* C12: after any run of saveFileToDB and deleteFileFromDB calls, for every
\* key K getFileFromDB(K) gives bytes exactly when getStoredKeys() has K; a
\* getStoredKeys call resolves with the keys saved and not deleted since.
C12_GetIffListed ==
  /\ \A k \in Keys : getFileFromDB(k).has <=> k \in getStoredKeys
  /\ Resolved("keys") => sx.ret.res.keys = {k \in Keys : sx.last[k].has}
  /\ Resolved("get") => (~sx.ret.res.isNull <=> sx.ret.had)

\* getStoredKeys resolved with one key of the two while the other is absent,
\* and getFileFromDB agrees on both
C12_Witness ==
  /\ Resolved("keys")
  /\ \E k1, k2 \in Keys :
       /\ sx.ret.res.keys = {k1} /\ k2 # k1
       /\ getFileFromDB(k1).has /\ ~getFileFromDB(k2).has
       /\ \A i \in 1..MaxOps : sx.ops[i].pc = "done"

\* C13: getFileFromDB(K) resolves with exactly the bytes of the latest
\* completed saveFileToDB(K, .), also when that save replaced other bytes.
C13_GetReturnsLatestSave ==
  (Resolved("get") /\ sx.last[sx.ret.key].has) =>
     /\ ~sx.ret.res.isNull
     /\ sx.ret.res.bytes = sx.last[sx.ret.key].data

\* put(K, A), put(K, B) with B # A, then get(K) resolved with B
C13_Witness ==
  /\ Resolved("get")
  /\ sx.over[sx.ret.key]
  /\ sx.ret.res.bytes = <<1, 0>>

\* C14: when deleteFileFromDB(K) has completed, getStoredKeys() has no K and
\* every other key holds what it held; deleting a key that is not there
\* resolves and leaves the store as it was.
C14_DeleteRemovesOnlyKey ==
  (sx.ret.op = "delete" /\ ~sx.ret.fault) =>
     /\ sx.ret.res.settled = "resolved"
     /\ sx.ret.key \notin getStoredKeys
     /\ \A k \in Keys \ {sx.ret.key} :
          /\ (k \in getStoredKeys) = sx.last[k].has
          /\ sx.last[k].has => getFileFromDB(k).data = sx.last[k].data

\* a stored key was deleted while the other key holds bytes
C14_Witness ==
  /\ Resolved("delete") /\ sx.ret.had
  /\ \E k \in Keys \ {sx.ret.key} : k \in getStoredKeys /\ sx.last[k].data = <<1, 0>>

\* C15: getFileFromDB on a key that is not in the store resolves with null;
\* it rejects only when the storage itself fails.
C15_AbsentKeyResolvesNull ==
  /\ (sx.ret.op = "get" /\ ~sx.ret.fault /\ ~sx.ret.had) =>
        (sx.ret.res.settled = "resolved" /\ sx.ret.res.isNull)
  /\ (sx.ret.op = "get" /\ sx.ret.res.settled = "rejected") => sx.ret.fault

\* getFileFromDB of an absent key resolved with null while the other key is
\* stored
C15_Witness ==
  /\ Resolved("get") /\ ~sx.ret.had /\ sx.ret.res.isNull
  /\ \E k \in Keys \ {sx.ret.key} : k \in getStoredKeys

\* C16: a dbService call that has returned holds no open connection.
C16_ConnectionsReleased ==
  \A i \in 1..MaxOps : sx.ops[i].pc = "done" => i \notin sx.conns

\* the key of handleDownload call i is listed with the given status
ItemIs(k, status) == k \in DOMAIN files /\ files[k].status = status

\* C17: when handleDownload(key) succeeds the store holds, under the key of
\* the item, the bytes downloadFile returned, the other keys are untouched,
\* and no item becomes 'ready' in a step after which the store lacks its key.
C17_ReadyAfterStored ==
  [][/\ \A i \in DOMAIN dls :
          (dls[i].pc = "save" /\ dls'[i].pc = "ready") =>
             /\ dls[i].key \in getStoredKeys'
             /\ getFileFromDB(dls[i].key)' = [has |-> TRUE, data |-> dls[i].zipData]
             /\ \A k \in Keys \ {dls[i].key} : db'[k] = db[k]
     /\ \A k \in Keys :
          (ItemIs(k, "ready")' /\ ~ItemIs(k, "ready")) => k \in getStoredKeys']_vars

\* a download of b.zip succeeded: the item is 'ready' and the store holds the
\* server's bytes under "b.zip"
C17_Witness ==
  \E i \in DOMAIN dls :
    /\ dls[i].pc = "ready" /\ dls[i].key = "b.zip"
    /\ ItemIs("b.zip", "ready")
    /\ getStoredKeys = {"b.zip"}
    /\ getFileFromDB("b.zip").data = ServerFile("b.zip")

\* C18: the step in which a handleDownload call fails inside downloadFile
\* leaves the store as it is, and the store changes only in the step in which
\* a call's saveFileToDB resolves: a call that fails in downloadFile has
\* written nothing.
C18_FailedFetchWritesNothing ==
  [][/\ \A i \in DOMAIN dls :
          (dls[i].pc = "download" /\ dls'[i].pc = "failed") => db' = db
     /\ db' # db => \E j \in DOMAIN dls : dls[j].pc = "save" /\ dls'[j].pc = "ready"]_vars

\* a download failed inside downloadFile, the item shows the error and the
\* store has nothing under its key
C18_Witness ==
  \E i \in DOMAIN dls :
    /\ dls[i].pc = "failed" /\ dls[i].last = 0
    /\ ItemIs(dls[i].key, "error")
    /\ dls[i].key \notin getStoredKeys

\* C19: with every awaited fetch, read and store write settling, every
\* handleDownload call ends, the step in which it ends leaves its item (if
\* listed) 'ready' or 'error', and an item is 'downloading' only while a
\* handleDownload call of its key is running: none stays so forever.
C19_DownloadsSettle ==
  /\ \A i \in 1..MaxCalls : InFlight(dls[i]) ~> dls[i].pc \in {"ready", "failed"}
  /\ [](\A k \in Keys : ItemIs(k, "downloading") =>
                           \E i \in DOMAIN dls : InFlight(dls[i]) /\ dls[i].key = k)
  /\ [][\A i \in DOMAIN dls :
          (InFlight(dls[i]) /\ dls'[i].pc \in {"ready", "failed"}) =>
             (dls[i].key \in DOMAIN files' =>
                files'[dls[i].key].status \in {"ready", "error"})]_vars

\* two downloads have ended, one of them 'ready', with a refresh beside them
C19_Witness ==
  \E i, j \in DOMAIN dls :
    /\ i # j
    /\ dls[i].pc = "ready" /\ ItemIs(dls[i].key, "ready")
    /\ dls[j].pc \in {"ready", "failed"}
    /\ \E f \in DOMAIN fetches : f > 1 /\ fetches[f].pc = "done"

\* the handlePlay calls whose resolution is running
C20_Running(i) == plays[i].pc \in {"getFile", "process"}

Outcome(d) == <<d.errName, d.err>>

\* the failures that are not a 404: the other non-OK statuses and a fetch
\* that rejects
OtherFailures == {r \in FetchResponses : ~r.ok /\ r.status # 404}

\* C21: a downloadFile call that failed on a 404 rejects with an outcome of
\* its own (NotFoundError), one that none of the other failures (another
\* non-OK status, a transport failure) produces.
C21_NotFoundDistinct ==
  (fx.pc = "failed" /\ fx.status = 404) =>
     /\ \A r \in OtherFailures : Outcome(DfResponse(DfStart(fx.hasCb), r)) # Outcome(fx)
     /\ Outcome(DfReject(fx)) # Outcome(fx)

\* the number of '/' characters base ends with
TrailingSlashes(base) ==
  CHOOSE n \in 0..Len(base) :
    /\ \A i \in (Len(base) - n + 1)..Len(base) : base[i] = "/"
    /\ n = Len(base) \/ base[Len(base) - n] # "/"

\* s is made of the markers '/' and './' only
MarkersOnly(s) ==
  \A i \in 1..Len(s) :
    \/ s[i] = "/"
    \/ s[i] = "." /\ i < Len(s) /\ s[i + 1] = "/"

\* the number of characters of the leading '/' and './' markers of path
LeadingMarkers(path) ==
  CHOOSE n \in 0..Len(path) :
    /\ MarkersOnly(SubSeq(path, 1, n))
    /\ ~StartsWith(SubSeq(path, n + 1, Len(path)), <<"/">>)
    /\ ~StartsWith(SubSeq(path, n + 1, Len(path)), <<".", "/">>)

\* path is an absolute http(s) URI
AbsoluteHttp(path) ==
  Len(path) >= 3 /\ path[1] \in {"http:", "https:"} /\ path[2] = "/" /\ path[3] = "/"

\* base without its trailing '/', one '/', path without its leading markers
Joined(base, path) ==
  SubSeq(base, 1, Len(base) - TrailingSlashes(base)) \o <<"/">> \o
  SubSeq(path, LeadingMarkers(path) + 1, Len(path))

\* C22 as stated: joinUrl gives an absolute http(s) path verbatim, and else
\* the base without its trailing '/', one '/', and the path without its
\* leading '/' and './' markers.
C22_JoinUrlAsStated ==
  jx.pc = "done" =>
    jx.out = IF AbsoluteHttp(jx.path) THEN jx.path ELSE Joined(jx.base, jx.path)

\* C22 as amended: an empty path gives the base verbatim (trailing '/'
\* included); otherwise as stated.
C22_JoinUrl ==
  jx.pc = "done" =>
    jx.out = IF jx.path = <<>> THEN jx.base
             ELSE IF AbsoluteHttp(jx.path) THEN jx.path
             ELSE Joined(jx.base, jx.path)

\* joinUrl of a base that ends in '/' and a path with several leading markers
\* before a name
C22_Witness ==
  /\ jx.pc = "done"
  /\ jx.base = <<"https:", "/", "/", "h", "/">>
  /\ jx.path = <<".", "/", "/", "a">>
  /\ jx.out = <<"https:", "/", "/", "h", "/", "a">>

\* C23: a downloadFile call that read its body in chunks returns their
\* concatenation in order of receipt: as many bytes as the chunks have
\* together, each chunk at the offset that is the length of those before it.
C23_ChunksConcatenated ==
  (fx.pc = "done" /\ fx.chunks # <<>>) =>
     /\ Len(fx.result) = SumLen(fx.chunks, Len(fx.chunks))
     /\ \A i \in DOMAIN fx.chunks : \A p \in 1..Len(fx.chunks[i]) :
          fx.result[SumLen(fx.chunks, i - 1) + p] = fx.chunks[i][p]

\* a body received as a chunk of one byte and then a chunk of two
C23_Witness ==
  /\ fx.pc = "done"
  /\ fx.chunks = << <<1>>, <<0, 1>> >>
  /\ fx.result = <<1, 0, 1>>

\* the step is one of handlePlay: a call was made, moved on or ended
PlayStepTaken ==
  \/ plays' # plays
  \/ playIgnored' # playIgnored
  \/ playingContent' # playingContent /\ playingContent'.open

\* C24: no step of handlePlay (processZipContent included), successful or
\* not, changes the store: the stored keys and the bytes under each stay.
C24_PlaybackLeavesStore ==
  [][PlayStepTaken =>
       /\ getStoredKeys' = getStoredKeys
       /\ \A k \in Keys : getFileFromDB(k)' = getFileFromDB(k)]_vars

\* b.zip, whose archive cannot be extracted, was played without success and
\* the store still holds its bytes
C24_Witness ==
  \E i \in DOMAIN plays :
    /\ plays[i].pc = "failed" /\ plays[i].key = "b.zip"
    /\ getFileFromDB("b.zip") = [has |-> TRUE, data |-> ServerFile("b.zip")]

\* C25: every listed item of status 'ready' has its key in the store.
C25_ReadyIsStored ==
  \A k \in DOMAIN files : files[k].status = "ready" => k \in getStoredKeys

\* an item is 'ready' after a download, a refresh and a play
C25_Witness ==
  /\ \E k \in Keys : ItemIs(k, "ready") /\ k \in getStoredKeys
  /\ \E i \in DOMAIN dls : dls[i].pc = "ready"
  /\ \E f \in DOMAIN fetches : f > 1 /\ fetches[f].pc = "done"
  /\ \E i \in DOMAIN plays : plays[i].pc # "idle"

\* C26: no two handleDownload calls of the same key are running at once.
C26_OneDownloadPerKey ==
  \A i, j \in DOMAIN dls :
    (i # j /\ InFlight(dls[i]) /\ InFlight(dls[j])) => dls[i].key # dls[j].key

\* C27: when no fetchFiles and no handleDownload call is running, every
\* listed item whose key is in the store is 'ready' (stated for the runs in
\* which nothing was played, so that no failed play has reverted an item).
C27_NoStaleStatus ==
  (/\ \A i \in DOMAIN dls : ~InFlight(dls[i])
   /\ \A i \in DOMAIN plays : plays[i].pc = "idle"
   /\ \A f \in DOMAIN fetches : fetches[f].pc \in {"idle", "done"})
  => \A k \in DOMAIN files : k \in getStoredKeys => files[k].status = "ready"

\* C28: a step of handleDownload calls (start, progress, end) changes no
\* item but those of the keys of the calls that moved, and lists the same
\* keys.
C28_OtherItemsUntouched ==
  [][dls' # dls =>
       /\ DOMAIN files' = DOMAIN files
       /\ \A k \in DOMAIN files :
            files'[k] # files[k] =>
               \E i \in DOMAIN dls : dls'[i] # dls[i] /\ dls'[i].key = k]_vars

\* downloads of the two keys run side by side, one at 50 percent, the other
\* at 0
C28_Witness ==
  \E i, j \in DOMAIN dls :
    /\ InFlight(dls[i]) /\ InFlight(dls[j])
    /\ dls[i].key # dls[j].key
    /\ {dls[i].key, dls[j].key} \subseteq DOMAIN files
    /\ files[dls[i].key].downloadProgress = 50
    /\ files[dls[j].key].downloadProgress = 0
    /\ files[dls[j].key].status = "downloading"

====
